---- MODULE Spec2Model ----
(***************************************************************************)
(* Model of the vulnerability-management scripts:                          *)
(*   src/snykScan.py            the Finding Collector                      *)
(*   src/jiraTicketCreation.py  priority scoring, due dates, the ticket    *)
(*                              loop and the end-to-end entry point        *)
(***************************************************************************)
EXTENDS Integers, Sequences, FiniteSets, TLC

\* ------------------------------------------------------------------ bounds
MaxProjects == 2    \* projects the scanner organisation holds
MaxIssues   == 2    \* issues per project
MaxPages    == 2    \* pages one paginated listing is served in
MaxMapping  == 2    \* entries of the mapping handed to the ticket loop

\* ------------------------------------------------------- risk factor values
\* A Python value that is either a str or a dict: isStr tells which, items is
\* the dict (a function on the keys that are present).
EmptyDict == [k \in {} |-> TRUE]

NoneIdentified == [isStr |-> TRUE, items |-> EmptyDict]

Dict(f) == [isStr |-> FALSE, items |-> f]

RiskKeys == {"Public-Facing", "Deployed", "Loaded Package", "OS Condition"}

AllDicts == UNION {[ks -> BOOLEAN] : ks \in SUBSET RiskKeys}

RiskFactorsDomain == {NoneIdentified} \cup {Dict(f) : f \in AllDicts}

\* dict.get(k): the set holding the value, empty for None.
Get(d, k) == IF k \in DOMAIN d THEN {d[k]} ELSE {}

\* truth value of the result of dict.get for a boolean entry
Truthy(v) == v = {TRUE}

PRIORITY_LEVELS == [Highest |-> 1, High |-> 2, Medium |-> 3, Low |-> 4]

SLA_DAYS == [Highest |-> 2, High |-> 5, Medium |-> 14, Low |-> 30]

Tiers == DOMAIN SLA_DAYS

\* ------------------------------------------------------- calculate_priority
\* "=" written where "+=" was meant on the Deployed branch
calculate_priority_assign(risk_factors) ==
    IF risk_factors = NoneIdentified THEN "Low"
    ELSE LET d  == risk_factors.items
             s1 == IF Truthy(Get(d, "Public-Facing")) THEN 3 ELSE 0
             s2 == IF Truthy(Get(d, "Deployed")) THEN 2 ELSE s1
             s3 == IF Truthy(Get(d, "Loaded Package")) THEN s2 + 1 ELSE s2
             s4 == IF Truthy(Get(d, "OS Condition")) THEN s3 + 1 ELSE s3
         IN  IF s4 >= 5 THEN "Highest"
             ELSE IF s4 >= 3 THEN "High"
             ELSE IF s4 >= 1 THEN "Medium"
             ELSE "Low"

\* OS Condition counted when the key is present, whatever it carries
calculate_priority_present(risk_factors) ==
    IF risk_factors = NoneIdentified THEN "Low"
    ELSE LET d  == risk_factors.items
             s1 == IF Truthy(Get(d, "Public-Facing")) THEN 3 ELSE 0
             s2 == IF Truthy(Get(d, "Deployed")) THEN s1 + 2 ELSE s1
             s3 == IF Truthy(Get(d, "Loaded Package")) THEN s2 + 1 ELSE s2
             s4 == IF Get(d, "OS Condition") # {} THEN s3 + 1 ELSE s3
         IN  IF s4 >= 5 THEN "Highest"
             ELSE IF s4 >= 3 THEN "High"
             ELSE IF s4 >= 1 THEN "Medium"
             ELSE "Low"

calculate_priority(risk_factors) ==
    IF risk_factors = NoneIdentified THEN "Low"
    ELSE LET d  == risk_factors.items
             s1 == IF Truthy(Get(d, "Public-Facing")) THEN 3 ELSE 0
             s2 == IF Truthy(Get(d, "Deployed")) THEN s1 + 2 ELSE s1
             s3 == IF Truthy(Get(d, "Loaded Package")) THEN s2 + 1 ELSE s2
             s4 == IF Truthy(Get(d, "OS Condition")) THEN s3 + 1 ELSE s3
         IN  IF s4 >= 5 THEN "Highest"
             ELSE IF s4 >= 3 THEN "High"
             ELSE IF s4 >= 1 THEN "Medium"
             ELSE "Low"

\* ------------------------------------------------------- calculate_due_date
\* A calendar date is <<year, month, day>>; datetime + timedelta goes through
\* the proleptic Gregorian ordinal (day 1 is 0001-01-01).
IsLeap(y) == (y % 4 = 0) /\ ((y % 100 # 0) \/ (y % 400 = 0))

DaysInMonth(y, m) ==
    IF m = 2 THEN (IF IsLeap(y) THEN 29 ELSE 28)
    ELSE IF m \in {4, 6, 9, 11} THEN 30 ELSE 31

RECURSIVE DaysBeforeMonth(_, _)
DaysBeforeMonth(y, m) ==
    IF m = 1 THEN 0 ELSE DaysBeforeMonth(y, m - 1) + DaysInMonth(y, m - 1)

DaysBeforeYear(y) ==
    (y - 1) * 365 + ((y - 1) \div 4) - ((y - 1) \div 100) + ((y - 1) \div 400)

ToOrdinal(date) ==
    DaysBeforeYear(date[1]) + DaysBeforeMonth(date[1], date[2]) + date[3]

FromOrdinal(ord) ==
    LET n0   == ord - 1
        n400 == n0 \div 146097
        r400 == n0 % 146097
        n100 == r400 \div 36524
        r100 == r400 % 36524
        n4   == r100 \div 1461
        r4   == r100 % 1461
        n1   == r4 \div 365
        n    == r4 % 365
        year == n400 * 400 + 1 + n100 * 100 + n4 * 4 + n1
    IN  IF n1 = 4 \/ n100 = 4 THEN <<year - 1, 12, 31>>
        ELSE LET guess == (n + 50) \div 32
                 month == IF DaysBeforeMonth(year, guess) > n
                          THEN guess - 1 ELSE guess
             IN  <<year, month, n - DaysBeforeMonth(year, month) + 1>>

current_date == <<2025, 4, 2>>

Pad(n, width) ==
    IF width = 2 /\ n < 10 THEN "0" \o ToString(n) ELSE ToString(n)

\* strftime("%Y-%m-%d") for four-digit years
Strftime(date) ==
    ToString(date[1]) \o "-" \o Pad(date[2], 2) \o "-" \o Pad(date[3], 2)

\* SLA_DAYS.get(priority, 30)
SlaDaysGet(priority) ==
    IF priority \in DOMAIN SLA_DAYS THEN SLA_DAYS[priority] ELSE 30

\* an unknown tier gets the Highest SLA instead of the Low one
calculate_due_date_default(priority) ==
    LET sla_days == IF priority \in DOMAIN SLA_DAYS THEN SLA_DAYS[priority] ELSE 2
    IN  Strftime(FromOrdinal(ToOrdinal(current_date) + sla_days))

calculate_due_date(priority) ==
    LET sla_days == SlaDaysGet(priority)
        due_date == FromOrdinal(ToOrdinal(current_date) + sla_days)
    IN  Strftime(due_date)

\* ------------------------------------------------------------------- state
VARIABLES
    \* calls of the two pure functions
    risk_factors,       \* argument of the last calculate_priority call
    priority,           \* its result
    prev_priority,      \* result of the call before it
    due_input,          \* argument of the last calculate_due_date call
    due_date,           \* its result
    op,                 \* which call came last
    \* jiraTicketCreation.main
    impacted_projects,  \* the dict argument, in insertion order
    jira,               \* status the ticketing service answers per project
    pc,                 \* position in main
    idx,                \* position of the for loop in the dict
    posts,              \* project names a ticket was POSTed for, in order
    tickets,            \* tickets the service created
    result,             \* how main ended
    out,                \* what has been printed
    \* snykScan.find_projects_by_cve
    orgProjects,        \* names of the organisation's projects; id = position
    orgIssues,          \* issues of each project id
    cpc,                \* position in find_projects_by_cve
    remaining,          \* items the scanner has not served yet in this listing
    pageNo,             \* pages fetched in this listing
    projects,           \* list returned by get_projects
    issues,             \* list being built by get_issues_for_project
    pidx,               \* position of the for loop in projects
    found,              \* impacted_projects being built
    returned,           \* return value of find_projects_by_cve
    non200,             \* the scanner answered a non-200 status in this call
    \* jiraTicketCreation.__main__
    epc,                \* position in the entry point
    handed              \* value snyk_main() returned

pureVars == <<risk_factors, priority, prev_priority, due_input, due_date, op>>

orchVars == <<impacted_projects, jira, pc, idx, posts, tickets, result>>

collVars == <<orgProjects, orgIssues, cpc, remaining, pageNo, projects,
              issues, pidx, found, returned, non200>>

e2eVars == <<epc, handed>>

vars == <<pureVars, orchVars, collVars, e2eVars, out>>

\* a Python value that may be None
None == [some |-> FALSE, value |-> <<>>]

Some(v) == [some |-> TRUE, value |-> v]

ProjectNames == {"a", "b", "c"}

PureIdle ==
    /\ risk_factors = NoneIdentified
    /\ priority = ""
    /\ prev_priority = ""
    /\ due_input = ""
    /\ due_date = ""
    /\ op = "none"

OrchIdle ==
    /\ impacted_projects = <<>>
    /\ jira = [n \in ProjectNames |-> 201]
    /\ pc = "idle"
    /\ idx = 0
    /\ posts = <<>>
    /\ tickets = <<>>
    /\ result = "none"

CollIdle ==
    /\ orgProjects = <<>>
    /\ orgIssues = [i \in 1..MaxProjects |-> <<>>]
    /\ cpc = "idle"
    /\ remaining = <<>>
    /\ pageNo = 0
    /\ projects = <<>>
    /\ issues = <<>>
    /\ pidx = 0
    /\ found = <<>>
    /\ returned = None
    /\ non200 = FALSE

E2EIdle ==
    /\ epc = "idle"
    /\ handed = None

\* ------------------------------------------------- the pure functions, called
UnknownTiers == {"Critical", "low", ""}

PriorityInputs == Tiers \cup UnknownTiers

InitPure ==
    /\ risk_factors \in RiskFactorsDomain
    /\ priority = ""
    /\ prev_priority = ""
    /\ due_input = ""
    /\ due_date = ""
    /\ op = "none"
    /\ OrchIdle /\ CollIdle /\ E2EIdle
    /\ out = <<>>

CallCalculatePriority ==
    /\ op = "none"
    /\ priority' = calculate_priority(risk_factors)
    /\ prev_priority' = priority
    /\ op' = "priority"
    /\ UNCHANGED <<risk_factors, due_input, due_date>>
    /\ UNCHANGED <<orchVars, collVars, e2eVars, out>>

\* calculate_priority called again after signal s was set to True in the dict
CallWithSignalAdded(s) ==
    /\ op \in {"priority", "added"}
    /\ ~risk_factors.isStr
    /\ ~Truthy(Get(risk_factors.items, s))
    /\ LET d == risk_factors.items
           e == [k \in DOMAIN d \cup {s} |-> IF k = s THEN TRUE ELSE d[k]]
       IN  /\ risk_factors' = Dict(e)
           /\ priority' = calculate_priority(Dict(e))
    /\ prev_priority' = priority
    /\ op' = "added"
    /\ UNCHANGED <<due_input, due_date>>
    /\ UNCHANGED <<orchVars, collVars, e2eVars, out>>

CallCalculateDueDate(p) ==
    /\ due_input' = p
    /\ due_date' = calculate_due_date(p)
    /\ due_input # p
    /\ UNCHANGED <<risk_factors, priority, prev_priority, op>>
    /\ UNCHANGED <<orchVars, collVars, e2eVars, out>>

NextPure ==
    \/ CallCalculatePriority
    \/ \E s \in RiskKeys : CallWithSignalAdded(s)
    \/ \E p \in PriorityInputs : CallCalculateDueDate(p)

SpecPure == InitPure /\ [][NextPure]_vars

\* ------------------------------------------------ properties: pure functions
Weight(k) ==
    CASE k = "Public-Facing"  -> 3
      [] k = "Deployed"       -> 2
      [] k = "Loaded Package" -> 1
      [] k = "OS Condition"   -> 1

RECURSIVE SumWeights(_)
SumWeights(ks) ==
    IF ks = {} THEN 0
    ELSE LET k == CHOOSE x \in ks : TRUE IN Weight(k) + SumWeights(ks \ {k})

TrueKeys(d) == {k \in RiskKeys : k \in DOMAIN d /\ d[k] = TRUE}

ReferenceTier(rf) ==
    IF rf.isStr THEN "Low"
    ELSE LET score == SumWeights(TrueKeys(rf.items))
         IN  CASE score >= 5 -> "Highest"
               [] score \in 3..4 -> "High"
               [] score \in 1..2 -> "Medium"
               [] OTHER -> "Low"

\* C5: whenever calculate_priority has been called, its result is the tier of
\* the reference scoring: Low for the sentinel, otherwise the thresholds
\* 5/3/1 applied to the sum of 3, 2, 1, 1 over the keys present with True.
C5_PriorityMatchesReference ==
    op \in {"priority", "added"} => priority = ReferenceTier(risk_factors)

C5_Witness ==
    /\ op = "priority"
    /\ ~risk_factors.isStr
    /\ DOMAIN risk_factors.items = RiskKeys
    /\ risk_factors.items["OS Condition"] = FALSE
    /\ risk_factors.items["Loaded Package"] = FALSE
    /\ priority = "Highest"

\* C6: after a recognised signal that was not true has been added as True, the
\* tier is at least as urgent as before (PRIORITY_LEVELS: 1 is most urgent).
C6_AddingSignalNeverLowersTier ==
    op = "added" => PRIORITY_LEVELS[priority] <= PRIORITY_LEVELS[prev_priority]

C6_Witness ==
    /\ op = "added"
    /\ prev_priority = "High"
    /\ priority = "Highest"
    /\ TrueKeys(risk_factors.items) = {"Public-Facing", "Deployed"}

NextDay(date) ==
    IF date[3] < DaysInMonth(date[1], date[2])
    THEN <<date[1], date[2], date[3] + 1>>
    ELSE IF date[2] < 12 THEN <<date[1], date[2] + 1, 1>>
    ELSE <<date[1] + 1, 1, 1>>

RECURSIVE DaysLater(_, _)
DaysLater(date, n) == IF n = 0 THEN date ELSE DaysLater(NextDay(date), n - 1)

ExpectedDays(p) ==
    CASE p = "Highest" -> 2
      [] p = "High"    -> 5
      [] p = "Medium"  -> 14
      [] OTHER         -> 30

ExpectedText(p) ==
    CASE p = "Highest" -> "2025-04-04"
      [] p = "High"    -> "2025-04-07"
      [] p = "Medium"  -> "2025-04-16"
      [] OTHER         -> "2025-05-02"

\* C7: calculate_due_date returns the reference date plus 2, 5, 14, 30 days
\* for Highest, High, Medium, Low and plus 30 days for any other value, as a
\* YYYY-MM-DD text, and the day counts do not decrease from Highest to Low.
C7_DueDateIsReferencePlusSla ==
    /\ due_date # "" =>
          /\ due_date = Strftime(DaysLater(current_date, ExpectedDays(due_input)))
          /\ due_date = ExpectedText(due_input)
    /\ \A p, q \in Tiers :
          PRIORITY_LEVELS[p] <= PRIORITY_LEVELS[q] => SLA_DAYS[p] <= SLA_DAYS[q]

C7_Witness ==
    /\ due_input = "Critical"
    /\ due_date = "2025-05-02"

\* ------------------------------------------------ jiraTicketCreation.main
TargetCve == "CVE-2025-0001"

OtherCve == "CVE-2024-9999"

StatusCodes == {200, 201, 500}

IsSuccess(status) == status \in {201, 200}

RiskSamples ==
    { NoneIdentified,
      Dict([k \in {"Public-Facing", "Deployed"} |-> TRUE]),
      Dict([k \in {"Loaded Package"} |-> TRUE]) }

IdOf(name) == "id-" \o name

Entry(name, id, rf) == [name |-> name, id |-> id, rf |-> rf]

Entries == {Entry(n, IdOf(n), rf) : n \in ProjectNames, rf \in RiskSamples}

\* dicts of at most MaxMapping entries: sequences without a repeated key
Mappings ==
    UNION { {m \in [1..n -> Entries] :
                \A i, j \in 1..n : m[i].name = m[j].name => i = j}
            : n \in 0..MaxMapping }

Keys(m) == {m[i].name : i \in 1..Len(m)}

\* the request body built by create_jira_ticket (lines 58-76)
TicketPayload(project_name, project_id, rf, cve_id) ==
    LET prio == calculate_priority(rf)
        due  == calculate_due_date(prio)
    IN  [ summary     |-> <<"Vulnerability", cve_id, "in", project_name>>,
          description |-> [ application |-> project_name,
                            project_id  |-> project_id,
                            cve         |-> cve_id,
                            riskFactors |-> rf,
                            due         |-> due,
                            sla         |-> SLA_DAYS[prio],
                            tier        |-> prio ],
          priority    |-> prio,
          duedate     |-> due ]

Line(kind, project, status, prio, due) ==
    [kind |-> kind, project |-> project, status |-> status,
     priority |-> prio, due |-> due]

InitOrch ==
    /\ impacted_projects \in Mappings
    /\ jira \in [ProjectNames -> StatusCodes]
    /\ pc = "start"
    /\ idx = 0
    /\ posts = <<>>
    /\ tickets = <<>>
    /\ result = "running"
    /\ out = <<>>
    /\ PureIdle /\ CollIdle /\ E2EIdle

\* the emptiness test left out: the loop runs over nothing
MainEmpty_NoTest ==
    /\ pc = "start"
    /\ impacted_projects = <<>>
    /\ out' = Append(out, Line("creating", "", 0, "", ""))
    /\ pc' = "loop"
    /\ idx' = 1
    /\ UNCHANGED <<impacted_projects, jira, posts, tickets, result>>
    /\ UNCHANGED <<pureVars, collVars, e2eVars>>

\* lines 87-89
MainEmpty ==
    /\ pc = "start"
    /\ impacted_projects = <<>>
    /\ out' = Append(out, Line("nothing", "", 0, "", ""))
    /\ pc' = "done"
    /\ result' = "returned"
    /\ UNCHANGED <<impacted_projects, jira, idx, posts, tickets>>
    /\ UNCHANGED <<pureVars, collVars, e2eVars>>

\* the loop started one entry too far
MainBegin_Skip ==
    /\ pc = "start"
    /\ impacted_projects # <<>>
    /\ out' = Append(out, Line("creating", "", 0, "", ""))
    /\ pc' = "loop"
    /\ idx' = 2
    /\ UNCHANGED <<impacted_projects, jira, posts, tickets, result>>
    /\ UNCHANGED <<pureVars, collVars, e2eVars>>

\* line 90, entering the for loop
MainBegin ==
    /\ pc = "start"
    /\ impacted_projects # <<>>
    /\ out' = Append(out, Line("creating", "", 0, "", ""))
    /\ pc' = "loop"
    /\ idx' = 1
    /\ UNCHANGED <<impacted_projects, jira, posts, tickets, result>>
    /\ UNCHANGED <<pureVars, collVars, e2eVars>>

\* lines 91-99 when the POST of create_jira_ticket answers 200 or 201
MainIterCreated ==
    /\ pc = "loop"
    /\ idx <= Len(impacted_projects)
    /\ LET project_name == impacted_projects[idx].name
           project_id   == impacted_projects[idx].id
           rf           == impacted_projects[idx].rf
           payload      == TicketPayload(project_name, project_id, rf, TargetCve)
           ticket_key   == Len(tickets) + 1
           prio         == calculate_priority(rf)
           due          == calculate_due_date(prio)
       IN  /\ IsSuccess(jira[project_name])
           /\ posts' = Append(posts, project_name)
           /\ tickets' = Append(tickets, [key |-> ticket_key, project |-> project_name,
                                          fields |-> payload])
           /\ out' = out \o << Line("ticket-for", project_name, 0, "", ""),
                               Line("created", project_name, ticket_key, prio, due) >>
    /\ idx' = idx + 1
    /\ UNCHANGED <<impacted_projects, jira, pc, result>>
    /\ UNCHANGED <<pureVars, collVars, e2eVars>>

\* no handler around the loop: the exception leaves main
MainIterFailed_Uncaught ==
    /\ pc = "loop"
    /\ idx <= Len(impacted_projects)
    /\ LET project_name == impacted_projects[idx].name
       IN  /\ ~IsSuccess(jira[project_name])
           /\ posts' = Append(posts, project_name)
           /\ out' = Append(out, Line("ticket-for", project_name, 0, "", ""))
    /\ pc' = "done"
    /\ result' = "raised"
    /\ UNCHANGED <<impacted_projects, jira, idx, tickets>>
    /\ UNCHANGED <<pureVars, collVars, e2eVars>>

\* lines 91-95 when the POST answers another status: create_jira_ticket
\* raises (line 81), the exception leaves the for loop and is printed by the
\* handler of lines 100-101, after which main returns
MainIterFailed ==
    /\ pc = "loop"
    /\ idx <= Len(impacted_projects)
    /\ LET project_name == impacted_projects[idx].name
       IN  /\ ~IsSuccess(jira[project_name])
           /\ posts' = Append(posts, project_name)
           /\ out' = out \o << Line("ticket-for", project_name, 0, "", ""),
                               Line("error", project_name, jira[project_name], "", "") >>
    /\ pc' = "done"
    /\ result' = "returned"
    /\ UNCHANGED <<impacted_projects, jira, idx, tickets>>
    /\ UNCHANGED <<pureVars, collVars, e2eVars>>

\* the for loop is exhausted; main falls off its end
MainLoopEnd ==
    /\ pc = "loop"
    /\ idx > Len(impacted_projects)
    /\ pc' = "done"
    /\ result' = "returned"
    /\ UNCHANGED <<impacted_projects, jira, idx, posts, tickets, out>>
    /\ UNCHANGED <<pureVars, collVars, e2eVars>>

NextOrch ==
    \/ MainEmpty
    \/ MainBegin
    \/ MainIterCreated
    \/ MainIterFailed
    \/ MainLoopEnd

SpecOrch == InitOrch /\ [][NextOrch]_vars

\* ------------------------------------------------ properties: the ticket loop
Failed(name) == ~IsSuccess(jira[name])

Created(name) == \E k \in 1..Len(tickets) : tickets[k].project = name

Reported(name) ==
    \E k \in 1..Len(out) : out[k].kind = "created" /\ out[k].project = name

Posted(name) == \E k \in 1..Len(posts) : posts[k] = name

\* C1: when main has ended, every project whose submission would succeed has
\* been submitted, created and reported, even if the submission of another
\* project of the same run failed.
C1_FailureIsolated ==
    pc = "done" =>
        \A A, B \in Keys(impacted_projects) :
            (A # B /\ Failed(A) /\ ~Failed(B)) =>
                Posted(B) /\ Created(B) /\ Reported(B)

\* C2: main never ends by raising, and every failed submission is printed as
\* an error carrying the project name and the response status.
C2_NoExceptionLeavesMain ==
    /\ result # "raised"
    /\ pc = "done" => result = "returned"
    /\ \A i \in 1..Len(posts) :
          Failed(posts[i]) =>
              \E k \in 1..Len(out) :
                  /\ out[k].kind = "error"
                  /\ out[k].project = posts[i]
                  /\ out[k].status = jira[posts[i]]

C2_Witness ==
    /\ pc = "done"
    /\ Len(posts) = 2
    /\ Failed(posts[2])
    /\ out[Len(out)].kind = "error"

\* C3: a submission is attempted at most once per project and only for
\* projects of the mapping; when main has ended and no submission failed,
\* exactly one ticket exists for every project of the mapping.
C3_OneTicketPerProject ==
    /\ \A i, j \in 1..Len(posts) : posts[i] = posts[j] => i = j
    /\ \A i \in 1..Len(posts) : posts[i] \in Keys(impacted_projects)
    /\ (pc = "done" /\ \A i \in 1..Len(posts) : ~Failed(posts[i])) =>
          /\ Len(tickets) = Len(impacted_projects)
          /\ \A n \in Keys(impacted_projects) :
                Cardinality({k \in 1..Len(tickets) : tickets[k].project = n}) = 1

C3_Witness ==
    /\ pc = "done"
    /\ Len(impacted_projects) = 2
    /\ Len(tickets) = 2

\* C4: with an empty mapping no submission is ever attempted, and main ends
\* normally after printing exactly the "nothing to do" line.
C4_EmptyInputNoOp ==
    impacted_projects = <<>> =>
        /\ posts = <<>>
        /\ tickets = <<>>
        /\ result # "raised"
        /\ pc = "done" =>
              /\ result = "returned"
              /\ out = << Line("nothing", "", 0, "", "") >>

C4_Witness ==
    /\ impacted_projects = <<>>
    /\ pc = "done"
    /\ Len(out) = 1

\* --------------------------------------------- snykScan.find_projects_by_cve
ScannerNames == {"a", "b"}

Issue(cves, characteristics) == [cves |-> cves, characteristics |-> characteristics]

\* issues the scanner may hold: one that lists another CVE only, and three
\* that list the target CVE with different characteristics
IssueSamples ==
    { Issue({OtherCve}, [k \in {"is_deployed"} |-> TRUE]),
      Issue({TargetCve}, [k \in {"is_deployed", "is_loaded_package"} |-> FALSE]),
      Issue({TargetCve, OtherCve}, [k \in {"is_public_facing", "is_deployed"} |-> TRUE]),
      Issue({TargetCve}, [k \in {"os_condition_match"} |-> FALSE]) }

SeqsUpTo(S, n) == UNION {[1..k -> S] : k \in 0..n}

BadStatus == {401, 500}

\* lines 63-78
extract_risk_factors(issue) ==
    LET c  == issue.characteristics
        ks == (IF Truthy(Get(c, "is_deployed")) THEN {"Deployed"} ELSE {})
              \cup (IF Truthy(Get(c, "is_public_facing")) THEN {"Public-Facing"} ELSE {})
              \cup (IF Truthy(Get(c, "is_loaded_package")) THEN {"Loaded Package"} ELSE {})
              \cup (IF Get(c, "os_condition_match") # {} THEN {"OS Condition"} ELSE {})
    IN  [k \in ks |-> IF k = "OS Condition" THEN c["os_condition_match"] ELSE TRUE]

\* the scan without its break: the last issue listing the CVE is used
RECURSIVE ScanIssues_NoBreak(_, _, _)
ScanIssues_NoBreak(iss, cve_id, j) ==
    IF j > Len(iss) THEN 0
    ELSE LET later == ScanIssues_NoBreak(iss, cve_id, j + 1)
         IN  IF later # 0 THEN later
             ELSE IF cve_id \in iss[j].cves THEN j ELSE 0

\* the for loop of lines 91-101 from issue j on: position of the issue it
\* stops at, 0 when it runs to the end
RECURSIVE ScanIssues(_, _, _)
ScanIssues(iss, cve_id, j) ==
    IF j > Len(iss) THEN 0
    ELSE IF cve_id \in iss[j].cves THEN j
    ELSE ScanIssues(iss, cve_id, j + 1)

\* d[name] = value on a dict kept in insertion order
DictSet(d, name, value) ==
    IF \E i \in 1..Len(d) : d[i].name = name
    THEN [i \in 1..Len(d) |-> IF d[i].name = name THEN value ELSE d[i]]
    ELSE Append(d, value)

ProjectRecords(names) == [i \in 1..Len(names) |-> [id |-> i, name |-> names[i]]]

InitScanner ==
    /\ orgProjects \in SeqsUpTo(ScannerNames, MaxProjects)
    /\ orgIssues \in [1..MaxProjects -> SeqsUpTo(IssueSamples, MaxIssues)]
    /\ \A i \in 1..MaxProjects : i > Len(orgProjects) => orgIssues[i] = <<>>

\* find_projects_by_cve(TargetCve) has been called and get_projects is about
\* to send its first request
InitColl ==
    /\ InitScanner
    /\ cpc = "get_projects"
    /\ remaining = ProjectRecords(orgProjects)
    /\ pageNo = 0
    /\ projects = <<>>
    /\ issues = <<>>
    /\ pidx = 0
    /\ found = <<>>
    /\ returned = None
    /\ non200 = FALSE
    /\ out = <<>>
    /\ PureIdle /\ OrchIdle /\ E2EIdle

\* what one page may hold: k of the remaining items, and a next link unless
\* this is the last page the scanner serves
PageShape(k, hasNext) ==
    /\ k \in 0..Len(remaining)
    /\ ~hasNext => k = Len(remaining)
    /\ pageNo + 1 >= MaxPages => ~hasNext

\* lines 20-34, one request answered 200
GetProjectsPage(k, hasNext) ==
    /\ cpc = "get_projects"
    /\ PageShape(k, hasNext)
    /\ projects' = projects \o SubSeq(remaining, 1, k)
    /\ remaining' = SubSeq(remaining, k + 1, Len(remaining))
    /\ pageNo' = pageNo + 1
    /\ IF hasNext
       THEN UNCHANGED <<cpc, pidx>>
       ELSE cpc' = "for_project" /\ pidx' = 1
    /\ UNCHANGED <<orgProjects, orgIssues, issues, found, returned, non200>>
    /\ UNCHANGED <<pureVars, orchVars, e2eVars, out>>

\* lines 22-23: the exception leaves find_projects_by_cve
GetProjectsFail(status) ==
    /\ cpc = "get_projects"
    /\ pageNo < MaxPages
    /\ cpc' = "raised"
    /\ non200' = TRUE
    /\ UNCHANGED <<orgProjects, orgIssues, remaining, pageNo, projects, issues,
                   pidx, found, returned>>
    /\ UNCHANGED <<pureVars, orchVars, e2eVars, out>>

\* lines 86-89 and 39-44: next project, get_issues_for_project about to send
BeginProject ==
    /\ cpc = "for_project"
    /\ pidx <= Len(projects)
    /\ cpc' = "get_issues"
    /\ remaining' = orgIssues[projects[pidx].id]
    /\ pageNo' = 0
    /\ issues' = <<>>
    /\ UNCHANGED <<orgProjects, orgIssues, projects, pidx, found, returned, non200>>
    /\ UNCHANGED <<pureVars, orchVars, e2eVars, out>>

\* lines 46-60, one request answered 200
GetIssuesPage(k, hasNext) ==
    /\ cpc = "get_issues"
    /\ PageShape(k, hasNext)
    /\ issues' = issues \o SubSeq(remaining, 1, k)
    /\ remaining' = SubSeq(remaining, k + 1, Len(remaining))
    /\ pageNo' = pageNo + 1
    /\ cpc' = IF hasNext THEN "get_issues" ELSE "scan"
    /\ UNCHANGED <<orgProjects, orgIssues, projects, pidx, found, returned, non200>>
    /\ UNCHANGED <<pureVars, orchVars, e2eVars, out>>

\* the failed request taken for the end of the listing
GetIssuesFail_Swallowed(status) ==
    /\ cpc = "get_issues"
    /\ pageNo < MaxPages
    /\ cpc' = "scan"
    /\ non200' = TRUE
    /\ UNCHANGED <<orgProjects, orgIssues, remaining, pageNo, projects, issues,
                   pidx, found, returned>>
    /\ UNCHANGED <<pureVars, orchVars, e2eVars, out>>

\* lines 48-49: the exception leaves find_projects_by_cve
GetIssuesFail(status) ==
    /\ cpc = "get_issues"
    /\ pageNo < MaxPages
    /\ cpc' = "raised"
    /\ non200' = TRUE
    /\ UNCHANGED <<orgProjects, orgIssues, remaining, pageNo, projects, issues,
                   pidx, found, returned>>
    /\ UNCHANGED <<pureVars, orchVars, e2eVars, out>>

\* lines 91-101 for the current project
ScanProject ==
    /\ cpc = "scan"
    /\ LET project_id   == projects[pidx].id
           project_name == projects[pidx].name
           j            == ScanIssues(issues, TargetCve, 1)
       IN  IF j = 0
           THEN found' = found
           ELSE LET rf == extract_risk_factors(issues[j])
                IN  found' = DictSet(found, project_name,
                        Entry(project_name, project_id,
                              IF rf # EmptyDict THEN Dict(rf) ELSE NoneIdentified))
    /\ pidx' = pidx + 1
    /\ cpc' = "for_project"
    /\ UNCHANGED <<orgProjects, orgIssues, remaining, pageNo, projects, issues,
                   returned, non200>>
    /\ UNCHANGED <<pureVars, orchVars, e2eVars, out>>

\* line 103
ReturnFound ==
    /\ cpc = "for_project"
    /\ pidx > Len(projects)
    /\ returned' = Some(found)
    /\ cpc' = "returned"
    /\ UNCHANGED <<orgProjects, orgIssues, remaining, pageNo, projects, issues,
                   pidx, found, non200>>
    /\ UNCHANGED <<pureVars, orchVars, e2eVars, out>>

NextColl ==
    \/ \E k \in 0..MaxProjects, hasNext \in BOOLEAN : GetProjectsPage(k, hasNext)
    \/ \E status \in BadStatus : GetProjectsFail(status)
    \/ BeginProject
    \/ \E k \in 0..MaxIssues, hasNext \in BOOLEAN : GetIssuesPage(k, hasNext)
    \/ \E status \in BadStatus : GetIssuesFail(status)
    \/ ScanProject
    \/ ReturnFound

SpecColl == InitColl /\ [][NextColl]_vars

\* ------------------------------------------------ properties: the collector
\* C8: once the scanner has answered a non-200 status to a request listing
\* projects or issues, find_projects_by_cve has raised and has returned no
\* mapping, whatever it had collected before.
C8_FetchFailureIsFatal ==
    /\ non200 => (cpc = "raised" /\ returned = None)
    /\ cpc = "raised" => returned = None
    /\ returned # None => ~non200

C8_Witness ==
    /\ cpc = "raised"
    /\ found # <<>>
    /\ pidx = 2
    /\ pageNo = 1
    /\ issues # <<>>

Matches(i) == {j \in 1..Len(orgIssues[i]) : TargetCve \in orgIssues[i][j].cves}

FirstMatch(i) == CHOOSE j \in Matches(i) : \A k \in Matches(i) : j <= k

EntryOf(i) ==
    {k \in 1..Len(returned.value) :
        returned.value[k].name = orgProjects[i] /\ returned.value[k].id = i}

\* the entry of project i carries the risk factors of its first matching issue
EntryIsFirstMatch(i) ==
    \A k \in EntryOf(i) :
        LET rf == extract_risk_factors(orgIssues[i][FirstMatch(i)])
        IN  /\ returned.value[k].rf = NoneIdentified <=> DOMAIN rf = {}
            /\ returned.value[k].rf # NoneIdentified => returned.value[k].rf = Dict(rf)

\* C9 as stated: the returned mapping has an entry for a project exactly when
\* one of its issues lists the target CVE, and the entry carries the risk
\* factors of the first such issue, the sentinel when there are none.
C9_EntryIffMatch ==
    cpc = "returned" =>
        \A i \in 1..Len(orgProjects) :
            /\ EntryOf(i) # {} <=> Matches(i) # {}
            /\ EntryIsFirstMatch(i)

Shadowed(i) ==
    \E j \in (i + 1)..Len(orgProjects) :
        orgProjects[j] = orgProjects[i] /\ Matches(j) # {}

\* C9 amended: the mapping is keyed by project name, so a project has an entry
\* exactly when one of its issues lists the target CVE and no later project of
\* the same name has such an issue; the entry carries the risk factors of the
\* project's first matching issue, the sentinel when there are none; and the
\* mapping holds nothing else.
C9_EntryIffLastNamedMatch ==
    cpc = "returned" =>
        /\ \A i \in 1..Len(orgProjects) :
              /\ EntryOf(i) # {} <=> (Matches(i) # {} /\ ~Shadowed(i))
              /\ EntryIsFirstMatch(i)
        /\ \A k \in 1..Len(returned.value) :
              \E i \in 1..Len(orgProjects) : k \in EntryOf(i)
        /\ \A k, l \in 1..Len(returned.value) :
              returned.value[k].name = returned.value[l].name => k = l

C9_Witness ==
    /\ cpc = "returned"
    /\ Len(orgProjects) = 2
    /\ orgProjects[1] # orgProjects[2]
    /\ Cardinality(Matches(1)) = 2
    /\ extract_risk_factors(orgIssues[1][1]) # extract_risk_factors(orgIssues[1][2])
    /\ Len(returned.value) = 2
    /\ returned.value[1].rf = Dict([k \in {"OS Condition"} |-> FALSE])
    /\ returned.value[2].rf = NoneIdentified

\* ------------------------------------------- jiraTicketCreation.__main__
\* The script has been started against a scanner organisation; line 105 is
\* about to import main from the module snyk_scan.
InitE2E ==
    /\ InitScanner
    /\ epc = "import"
    /\ handed = None
    /\ cpc = "idle"
    /\ remaining = <<>>
    /\ pageNo = 0
    /\ projects = <<>>
    /\ issues = <<>>
    /\ pidx = 0
    /\ found = <<>>
    /\ returned = None
    /\ non200 = FALSE
    /\ out = <<>>
    /\ PureIdle /\ OrchIdle

\* line 105 when no module snyk_scan is on the import path (the collector
\* lives in snykScan.py): ModuleNotFoundError ends the script
ImportSnykMainFails ==
    /\ epc = "import"
    /\ epc' = "crashed"
    /\ UNCHANGED <<handed, out>>
    /\ UNCHANGED <<pureVars, orchVars, collVars>>

\* line 105 when the import path resolves snyk_scan to the collector script
ImportSnykMain ==
    /\ epc = "import"
    /\ epc' = "snyk_main"
    /\ UNCHANGED <<handed, out>>
    /\ UNCHANGED <<pureVars, orchVars, collVars>>

\* line 106, the call of snykScan.main (lines 106-122): the name CVE_ID read
\* at line 109 is bound nowhere in the module, the NameError is printed by the
\* handler of lines 121-122, and main ends without a return statement, so the
\* caller receives None
SnykMain ==
    /\ epc = "snyk_main"
    /\ out' = Append(out, Line("error", "", 0, "", ""))
    /\ handed' = None
    /\ epc' = "guard"
    /\ UNCHANGED <<pureVars, orchVars, collVars>>

\* lines 107-109: main(impacted_projects, cve_id) is called only for a truthy
\* value
EntryGuard ==
    /\ epc = "guard"
    /\ IF handed.some /\ handed.value # <<>>
       THEN /\ impacted_projects' = handed.value
            /\ pc' = "start"
            /\ result' = "running"
            /\ epc' = "in_main"
       ELSE /\ epc' = "done"
            /\ UNCHANGED <<impacted_projects, pc, result>>
    /\ UNCHANGED <<jira, idx, posts, tickets, handed, out>>
    /\ UNCHANGED <<pureVars, collVars>>

NextE2E ==
    \/ ImportSnykMainFails
    \/ ImportSnykMain
    \/ SnykMain
    \/ EntryGuard

SpecE2E == InitE2E /\ [][NextE2E]_vars

\* C10: when an end-to-end run that got past its import is over and the
\* scanner holds projects with an issue listing the target CVE (what the
\* Collector finds), a ticket submission has been attempted for each of them.
C10_CollectorResultHandedOn ==
    epc = "done" =>
        \A i \in 1..Len(orgProjects) :
            Matches(i) # {} => Posted(orgProjects[i])
====
